---- MODULE Spec2Model ----
(***************************************************************************)
(* Reconciliation engine of notionManager: CloudinaryManager.update_assets *)
(* driving a content store (Cloudinary) and one of two metadata backends   *)
(* (LocalJsonSyncBackend, NotionSyncBackend).                              *)
(*                                                                         *)
(* One behaviour is a sequence of update_assets runs, each in a fresh      *)
(* process, over one unchanged folder.  Every remote call of a run is one  *)
(* step, so a run can be observed (and ended) between any two calls.       *)
(***************************************************************************)
EXTENDS Integers, Sequences, FiniteSets, TLC

VARIABLES
    cfg,          \* the job's NotionDBConfig: back mapping keys, default icon
    batch,        \* cli_sync: the jobs of the batch and how far it got
    fcall,        \* a call of a helper function: its name, arguments, result
    kind,         \* "json" (LocalJsonSyncBackend) or "notion" (NotionSyncBackend)
    update_tags,  \* the update_tags argument of update_assets
    files,        \* scan_folder's result: the files on disk, in discovery order
    disk,         \* what the backend persists: the JSON log / the Notion pages
    nextfault,    \* how many remote calls may still fail in this behaviour
    mem,          \* the backend's in-memory dict (_data / _notion_pages)
    base,         \* the entries as they were when this run fetched them
    pc,           \* position of the running update_assets
    idx,          \* index of the current item of scanned_by_hash
    info,         \* the current item's file_info fields set by the engine
    dels,         \* list(existing_entries.items()) of the deletion phase
    didx,         \* index of the current entry of dels
    calls,        \* the remote calls of the current run, in order
    run,          \* number of the current run
    ended         \* how each earlier run ended: "done", "aborted", "killed"

vars == <<cfg, batch, fcall, kind, update_tags, files, disk, nextfault, mem, base, pc, idx, info,
          dels, didx, calls, run, ended>>

----------------------------------------------------------------------------
(* Bounds of the model.                                                    *)

MaxFiles == 2
MaxEntries == 2
MaxRuns == 3
MaxFaults == 2
MaxFaultFiles == 1
MaxCfgFiles == 1

Hashes == {1, 2, 3}
Category == "banner"
RelPaths == { <<"a.jpg">>, <<"A.jpg">>, <<"b.jpg">>, <<"sub", "a.jpg">> }
Kinds == {"json", "notion"}

----------------------------------------------------------------------------
(* Strings: the conversions the engine applies to names.                   *)

\* str.lower()
Lower(s) ==
    CASE s = "A.jpg" -> "a.jpg"
      [] s = "A" -> "a"
      [] s = "Sub" -> "sub"
      [] s = "Banner" -> "banner"
      [] s = "Programming" -> "programming"
      [] s = "Python" -> "python"
      [] s = "My Dir" -> "my dir"
      [] s = ".JPG" -> ".jpg"
      [] OTHER -> s

\* Path(name).stem
Stem(s) ==
    CASE s = "a.jpg" -> "a"
      [] s = "A.jpg" -> "A"
      [] s = "b.jpg" -> "b"
      [] s = "a.png" -> "a"
      [] OTHER -> s

\* Path(name).suffix
Suffix(s) ==
    CASE s \in {"a.jpg", "A.jpg", "b.jpg", "pics.jpg"} -> ".jpg"
      [] s = "A.JPG" -> ".JPG"
      [] s \in {"skip.png", "file.png", "a.png"} -> ".png"
      [] s = "b.svg" -> ".svg"
      [] s = "notes.txt" -> ".txt"
      [] OTHER -> ""

\* Path(p).name
BaseName(p) == IF p = <<>> THEN "" ELSE p[Len(p)]

\* str.replace(" ", "_")
SpaceToUnderscore(s) ==
    CASE s = "my dir" -> "my_dir"
      [] s = "My Dir" -> "My_Dir"
      [] OTHER -> s

\* tag.lower().replace(" ", "_")
NormTag(s) == SpaceToUnderscore(Lower(s))

RECURSIVE FilterTags(_, _)
FilterTags(tag_list, filtered_tags) ==
    IF tag_list = <<>> THEN filtered_tags
    ELSE LET t == NormTag(Head(tag_list))
         IN  FilterTags(Tail(tag_list),
                        IF \E i \in 1..Len(filtered_tags) : filtered_tags[i] = t
                        THEN filtered_tags
                        ELSE Append(filtered_tags, t))

\* the tag list normalised but with its duplicates left in
generate_tags_with_duplicates(relative_path, root_category) ==
    [i \in 1..Len(relative_path) |->
        NormTag((<<root_category>> \o relative_path)[i])]

generate_tags(relative_path, root_category) ==
    FilterTags(<<root_category>> \o SubSeq(relative_path, 1, Len(relative_path) - 1),
               <<>>)

----------------------------------------------------------------------------
(* Content-store URLs.  A URL is .../upload/<tr transformation segments>/  *)
(* v<version>/<pid>.<ext>; pid is the folders and the stem, <<>> when      *)
(* there is no URL at all.                                                 *)

SecureUrl(public_id) == [tr |-> 0, pid |-> public_id]

create_new_url(url) == [url EXCEPT !.tr = @ + 1]

\* the path segments of a URL after /upload/, the extension left off
AfterUpload(url) ==
    [i \in 1..url.tr |-> "w_1500,h_600,c_fill,g_auto"] \o <<"v1">> \o url.pid

\* a segment the pattern v\d+ matches whole
IsVersion(segment) == segment \in {"v1", "v2"}

\* re.search(r"/upload/(?:[^/]+/)?v\d+/([^\.]+)\.", url): the optional
\* segment is tried first, then the pattern without it
_extract_public_id(url) ==
    LET after == AfterUpload(url)
    IN  IF url.pid = <<>> THEN <<>>
        ELSE IF Len(after) >= 3 /\ IsVersion(after[2])
             THEN SubSeq(after, 3, Len(after))
             ELSE IF Len(after) >= 2 /\ IsVersion(after[1])
                  THEN SubSeq(after, 2, Len(after))
                  ELSE <<>>

\* the public id cloudinary.uploader.upload answers with (use_filename=True,
\* unique_filename=False, folder=root_category)
UploadPublicId(f) == <<Category, Stem(f.file_name)>>

\* f"{root_category}/{Path(file_info['file_name']).stem.lower()}"
RenamePublicId(f) == <<Category, Lower(Stem(f.file_name))>>

----------------------------------------------------------------------------
(* Ordered dicts.  A Python dict is a sequence of values in insertion      *)
(* order; the key of a value is its "hash" field (for the backends' dicts  *)
(* the key under which the code stores a record is always that field).     *)

HasKey(d, k) == \E i \in 1..Len(d) : d[i].hash = k

Get(d, k) == d[CHOOSE i \in 1..Len(d) : d[i].hash = k]

\* d[k] = e: an existing key keeps its position, a new key goes last
Put(d, k, e) ==
    IF HasKey(d, k)
    THEN [i \in 1..Len(d) |-> IF d[i].hash = k THEN e ELSE d[i]]
    ELSE Append(d, e)

\* d.pop(k) / del d[k]
Pop(d, k) == SelectSeq(d, LAMBDA e : e.hash # k)

RECURSIVE DictOf(_, _)
DictOf(items, d) ==
    IF items = <<>> THEN d
    ELSE DictOf(Tail(items), Put(d, Head(items).hash, Head(items)))

\* scanned_by_hash = {f["hash"]: f for f in scanned_files}
scanned_by_hash(scanned_files) == DictOf(scanned_files, <<>>)

----------------------------------------------------------------------------
(* Local files and stored entries.                                         *)

\* one descriptor of scan_folder
FileInfo(relative_path, file_hash) ==
    [ file_name |-> BaseName(relative_path),
      raw_path  |-> relative_path,
      hash      |-> file_hash,
      tags      |-> generate_tags(relative_path, Category) ]

NoUrl == [tr |-> 0, pid |-> <<>>]

\* the value of a sync key property that holds no text
NoHash == 0

\* the local keys a back mapping can declare (those the engine reads back)
LocalKeys == {"path", "image_url", "tags", "hash", "icon"}

\* a job whose back mapping covers every property and declares no icon
DefaultCfg == [back_mapping |-> LocalKeys \ {"icon"}, default_icon |-> FALSE]

\* no helper function is being called on its own
NoCall == [fn |-> "none", arg |-> <<>>, out |-> <<>>, n |-> 0]

\* no batch of jobs is being run
NoBatch ==
    [jobs |-> <<>>, creds |-> TRUE, at |-> 0, step |-> "backend",
     status |-> "none", error |-> "none", events |-> <<>>]

\* the record LocalJsonSyncBackend.create_entry stores
JsonRecord(file_info, image_url) ==
    [ id        |-> file_info.hash,
      file_name |-> file_info.file_name,
      raw_path  |-> file_info.raw_path,
      image_url |-> image_url,
      tags      |-> file_info.tags,
      hash      |-> file_info.hash ]

\* the page NotionSyncBackend.create_entry adds (the mapped properties)
NotionPage(page_id, file_info, image_url) ==
    [ id        |-> page_id,
      path      |-> file_info.raw_path,
      image_url |-> image_url,
      tags      |-> file_info.tags,
      hash      |-> file_info.hash,
      icon      |-> "none",
      archived  |-> FALSE ]

\* transform_page under the forward mapping: the flat entry of a page
Transformed(page) ==
    [ id        |-> page.id,
      path      |-> page.path,
      image_url |-> page.image_url,
      tags      |-> page.tags,
      hash      |-> page.hash ]

\* whether _load_notion_pages keeps the page: the query returns the pages
\* that are not archived, and a page with an empty sync key value is skipped
Listed(page) == ~page.archived /\ page.hash # NoHash

\* NotionSyncBackend._load_notion_pages: the live pages, keyed by sync key
LoadNotion(pages) ==
    DictOf([i \in 1..Len(SelectSeq(pages, Listed)) |->
               Transformed(SelectSeq(pages, Listed)[i])], <<>>)

\* LocalJsonSyncBackend._load_data
LoadJson(doc) == doc

Load(k, d) == IF k = "json" THEN LoadJson(d) ELSE LoadNotion(d)

\* the file name the engine reads off a stored entry
StoredName(k, e) == IF k = "json" THEN e.file_name ELSE BaseName(e.path)

\* the source path the engine reads off a stored entry
StoredPath(k, e) == IF k = "json" THEN e.raw_path ELSE e.path

----------------------------------------------------------------------------
(* Inputs: the folder's files and what earlier runs left in the backend.   *)

DistinctPaths(s) == \A i, j \in 1..Len(s) : s[i].raw_path = s[j].raw_path => i = j

Ascending(s) == \A i, j \in 1..Len(s) : i < j => s[i].hash < s[j].hash

SeqsUpTo(S, n) == UNION { [1..m -> S] : m \in 0..n }

AllFiles == { FileInfo(p, h) : p \in RelPaths, h \in Hashes }

\* a folder holds one file per path; two files may hold the same bytes
FileSeqs(n) == { s \in SeqsUpTo(AllFiles, n) : DistinctPaths(s) }

\* the asset URL an earlier run stored for a file
StoredUrl(f) == create_new_url(SecureUrl(UploadPublicId(f)))

\* JSON logs earlier runs can have written: one record per hash, each from a
\* file of the folder at that time (keys listed in ascending order: hashes
\* are only ever compared for equality)
JsonStores(n) ==
    { s \in SeqsUpTo({ JsonRecord(f, StoredUrl(f)) : f \in AllFiles }, n) :
        Ascending(s) /\ DistinctPaths(s) }

\* Notion databases earlier runs can have written: pages 1..n, none archived
NotionStores(n) ==
    { [i \in 1..Len(s) |-> NotionPage(i, s[i], s[i].image_url)] :
        s \in JsonStores(n) }

Stores(k, n) == IF k = "json" THEN JsonStores(n) ELSE NotionStores(n)

NoInfo == [case |-> "none", ekey |-> 0, image_url |-> NoUrl, public_id |-> <<>>]

InitWith(faults, nfiles) ==
    /\ cfg = DefaultCfg
    /\ batch = NoBatch
    /\ kind \in Kinds
    /\ update_tags \in {TRUE}
    /\ files \in FileSeqs(nfiles)
    /\ disk \in Stores(kind, MaxEntries)
    /\ fcall = NoCall
    /\ nextfault = faults
    /\ mem = <<>>
    /\ base = <<>>
    /\ pc = "start"
    /\ idx = 0
    /\ info = NoInfo
    /\ dels = <<>>
    /\ didx = 0
    /\ calls = <<>>
    /\ run = 1
    /\ ended = <<>>

Init == InitWith(0, MaxFiles)

\* the back mappings of a Notion job: every local key, or all but one
CfgChoices ==
    { [back_mapping |-> LocalKeys \ dropped, default_icon |-> d] :
        dropped \in {{}} \cup {{k} : k \in LocalKeys}, d \in BOOLEAN }

\* Notion databases whose pages were given an icon in Notion
IconStores(n) ==
    { [i \in 1..Len(s) |-> [s[i] EXCEPT !.icon = "custom"]] :
        s \in NotionStores(n) }

\* the note the owner of a JSON log added to a record
Noted(record) ==
    [f \in DOMAIN record \cup {"note"} |->
        IF f = "note" THEN "kept" ELSE record[f]]

\* JSON logs whose records were given a note by hand
NotedStores(n) ==
    { [i \in 1..Len(s) |-> Noted(s[i])] : s \in JsonStores(n) }

\* list(reversed(tags))
Reverse(tags) == [i \in 1..Len(tags) |-> tags[Len(tags) + 1 - i]]

\* a stored tag list as written by the engine, reordered, or with a tag added
TagEdit(how, tags) ==
    CASE how = "reordered" -> Reverse(tags)
      [] how = "added"     -> Append(tags, "old")
      [] OTHER             -> tags

\* stores whose tag lists were all rewritten one way
TagStores(k, n) ==
    { [i \in 1..Len(s) |-> [s[i] EXCEPT !.tags = TagEdit(how, @)]] :
        s \in Stores(k, n), how \in {"kept", "reordered", "added"} }

InitTags ==
    /\ kind \in Kinds
    /\ cfg = DefaultCfg
    /\ batch = NoBatch
    /\ update_tags \in BOOLEAN
    /\ files \in FileSeqs(MaxFiles)
    /\ disk \in TagStores(kind, MaxEntries)
    /\ fcall = NoCall
    /\ nextfault = 0
    /\ mem = <<>>
    /\ base = <<>>
    /\ pc = "start"
    /\ idx = 0
    /\ info = NoInfo
    /\ dels = <<>>
    /\ didx = 0
    /\ calls = <<>>
    /\ run = 1
    /\ ended = <<>>

InitCfg ==
    /\ kind \in Kinds
    /\ cfg \in IF kind = "notion" THEN CfgChoices ELSE {DefaultCfg}
    /\ batch = NoBatch
    /\ update_tags \in {TRUE}
    /\ files \in FileSeqs(MaxCfgFiles)
    /\ disk \in IF kind = "notion"
                THEN IconStores(MaxEntries) ELSE NotedStores(MaxEntries)
    /\ fcall = NoCall
    /\ nextfault = 0
    /\ mem = <<>>
    /\ base = <<>>
    /\ pc = "start"
    /\ idx = 0
    /\ info = NoInfo
    /\ dels = <<>>
    /\ didx = 0
    /\ calls = <<>>
    /\ run = 1
    /\ ended = <<>>

\* a log record without its hash field; a page whose Hash property is empty
LackingHash(k, record) ==
    IF k = "json"
    THEN [f \in DOMAIN record \cup {"nohash"} |->
            IF f = "nohash" THEN TRUE ELSE record[f]]
    ELSE [record EXCEPT !.hash = NoHash]

\* stores in which any of the records may lack its content hash
MalformedStores(k, n) ==
    UNION { { [i \in 1..Len(s) |->
                 IF i \in bad THEN LackingHash(k, s[i]) ELSE s[i]] :
              bad \in SUBSET (1..Len(s)) } :
            s \in Stores(k, n) }

InitMalformed ==
    /\ kind \in Kinds
    /\ cfg = DefaultCfg
    /\ batch = NoBatch
    /\ update_tags \in {TRUE}
    /\ files \in FileSeqs(MaxFiles)
    /\ disk \in MalformedStores(kind, MaxEntries)
    /\ fcall = NoCall
    /\ nextfault = 0
    /\ mem = <<>>
    /\ base = <<>>
    /\ pc = "start"
    /\ idx = 0
    /\ info = NoInfo
    /\ dels = <<>>
    /\ didx = 0
    /\ calls = <<>>
    /\ run = 1
    /\ ended = <<>>

----------------------------------------------------------------------------
(* update_assets: scan, fetch, classify.                                   *)

Scanned == scanned_by_hash(files)

\* update_assets up to the first loop: scan_folder, fetch_existing_entries
StartRun ==
    /\ pc = "start"
    /\ mem' = Load(kind, disk)
    /\ base' = Load(kind, disk)
    /\ pc' = "item"
    /\ idx' = 1
    /\ info' = NoInfo
    /\ dels' = <<>>
    /\ didx' = 0
    /\ calls' = <<>>
    /\ UNCHANGED <<cfg, batch, fcall, kind, update_tags, files, disk, nextfault, run, ended>>

\* whether `entry` is the same-name entry the new-hash branch looks for
NameMatches(k, entry, file_info) ==
    IF k = "json"
    THEN StoredName(k, entry) = file_info.file_name
    ELSE Lower(StoredName(k, entry)) = Lower(file_info.file_name)

\* the first entry of existing_entries.values() whose name matches, if any
MatchingIndex(k, existing_entries, file_info) ==
    IF \E i \in 1..Len(existing_entries) : NameMatches(k, existing_entries[i], file_info)
    THEN CHOOSE i \in 1..Len(existing_entries) :
            /\ NameMatches(k, existing_entries[i], file_info)
            /\ \A j \in 1..(i - 1) : ~NameMatches(k, existing_entries[j], file_info)
    ELSE 0

\* the branch update_assets takes for one scanned file
CaseOf(k, existing_entries, file_info, tags_on) ==
    IF HasKey(existing_entries, file_info.hash)
    THEN LET existing_entry == Get(existing_entries, file_info.hash)
         IN  IF Lower(StoredName(k, existing_entry)) # Lower(file_info.file_name)
             THEN "RENAME"
             ELSE IF \/ file_info.raw_path # StoredPath(k, existing_entry)
                     \/ (tags_on /\ existing_entry.tags # file_info.tags)
                  THEN "UPDATE"
                  ELSE "NOOP"
    ELSE IF MatchingIndex(k, existing_entries, file_info) # 0
         THEN "CONTENT"
         ELSE "NEW"

\* the key of the entry the branch works on (0: none)
EntryKeyOf(k, existing_entries, file_info) ==
    IF HasKey(existing_entries, file_info.hash)
    THEN file_info.hash
    ELSE IF MatchingIndex(k, existing_entries, file_info) # 0
         THEN existing_entries[MatchingIndex(k, existing_entries, file_info)].hash
         ELSE 0

\* loop head of "Process Additions and Updates": pick the branch
Classify ==
    /\ pc = "item"
    /\ idx <= Len(Scanned)
    /\ LET c == CaseOf(kind, mem, Scanned[idx], update_tags)
       IN  /\ info' = [NoInfo EXCEPT !.case = c,
                                     !.ekey = EntryKeyOf(kind, mem, Scanned[idx])]
           /\ pc' = CASE c = "RENAME"  -> "rename"
                      [] c = "CONTENT" -> "destroy_old"
                      [] c = "NOOP"    -> "item"
                      [] OTHER         -> "upload"
           /\ idx' = IF c = "NOOP" THEN idx + 1 ELSE idx
    /\ UNCHANGED <<cfg, batch, fcall, kind, update_tags, files, disk, nextfault, mem, base, dels,
                   didx, calls, run, ended>>

----------------------------------------------------------------------------
(* The remote calls of one item.                                           *)

\* one remote call: which local file (0: none) and which stored entry
\* (0: none) it was made for, the public id or record it carried
Call(op, file_hash, entry_key, arg, ok) ==
    [op |-> op, file |-> file_hash, key |-> entry_key, arg |-> arg, ok |-> ok]

\* a call may fail while the behaviour has faults left
MayEnd(ok) == ok \/ nextfault > 0

Spend(ok) == IF ok THEN nextfault ELSE nextfault - 1

\* the entry the current item works on
Existing == Get(mem, info.ekey)

\* whether existing_entry["hash"] can be read: a record of a log edited by
\* hand may lack the field, and is then marked nohash here, its hash being
\* the key the log stores it under
HasHashField(entry) == "nohash" \notin DOMAIN entry

\* how update_entry and delete_entry end: the local log's raise KeyError
\* exactly when the record has no hash field, Notion's may fail as any
\* remote call
EntryCallEnds(ok, entry) ==
    IF kind = "json" THEN ok = HasHashField(entry) ELSE MayEnd(ok)

SpendOnEntry(ok) == IF kind = "json" THEN nextfault ELSE Spend(ok)

\* a rename branch without its fallback: a rename that raises is passed over
RenameWithoutFallback(ok) ==
    /\ pc = "rename"
    /\ MayEnd(ok)
    /\ calls' = Append(calls, Call("rename", Scanned[idx].hash, info.ekey,
                                   <<_extract_public_id(Existing.image_url),
                                     RenamePublicId(Scanned[idx])>>, ok))
    /\ info' = [info EXCEPT !.public_id = RenamePublicId(Scanned[idx])]
    /\ pc' = IF ok THEN "resource" ELSE "display"
    /\ nextfault' = Spend(ok)
    /\ UNCHANGED <<cfg, batch, fcall, kind, update_tags, files, disk, mem, base, idx, dels, didx,
                   run, ended>>

\* cloudinary.uploader.rename(old_public_id, new_public_id)
Rename(ok) ==
    /\ pc = "rename"
    /\ MayEnd(ok)
    /\ calls' = Append(calls, Call("rename", Scanned[idx].hash, info.ekey,
                                   <<_extract_public_id(Existing.image_url),
                                     RenamePublicId(Scanned[idx])>>, ok))
    /\ info' = [info EXCEPT !.public_id = RenamePublicId(Scanned[idx])]
    /\ pc' = IF ok THEN "resource" ELSE "fallback"
    /\ nextfault' = Spend(ok)
    /\ UNCHANGED <<cfg, batch, fcall, kind, update_tags, files, disk, mem, base, idx, dels, didx,
                   run, ended>>

\* cloudinary.api.resource(new_public_id) after a rename that went through
Resource(ok) ==
    /\ pc = "resource"
    /\ MayEnd(ok)
    /\ calls' = Append(calls, Call("resource", Scanned[idx].hash, info.ekey,
                                   info.public_id, ok))
    /\ info' = IF ok
               THEN [info EXCEPT !.image_url =
                                    create_new_url(SecureUrl(info.public_id))]
               ELSE info
    /\ pc' = IF ok THEN "display" ELSE "fallback"
    /\ nextfault' = Spend(ok)
    /\ UNCHANGED <<cfg, batch, fcall, kind, update_tags, files, disk, mem, base, idx, dels, didx,
                   run, ended>>

\* an engine that takes the asset for uploaded without calling upload_file
UploadSkipped(ok) ==
    /\ pc \in {"upload", "fallback"}
    /\ ok
    /\ info' = [info EXCEPT
                  !.image_url =
                      create_new_url(SecureUrl(UploadPublicId(Scanned[idx]))),
                  !.public_id = UploadPublicId(Scanned[idx])]
    /\ pc' = "display"
    /\ UNCHANGED <<cfg, batch, fcall, kind, update_tags, files, disk, nextfault, mem, base, idx,
                   dels, didx, calls, run, ended>>

\* an upload_file whose exception is passed over: the item goes on without
\* an uploaded asset
UploadPassedOver(ok) ==
    /\ pc \in {"upload", "fallback"}
    /\ MayEnd(ok)
    /\ calls' = Append(calls, Call("upload", Scanned[idx].hash, info.ekey,
                                   UploadPublicId(Scanned[idx]), ok))
    /\ info' = IF ok
               THEN [info EXCEPT
                       !.image_url =
                           create_new_url(SecureUrl(UploadPublicId(Scanned[idx]))),
                       !.public_id = UploadPublicId(Scanned[idx])]
               ELSE info
    /\ pc' = "display"
    /\ nextfault' = Spend(ok)
    /\ UNCHANGED <<cfg, batch, fcall, kind, update_tags, files, disk, mem, base, idx, dels, didx,
                   run, ended>>

\* upload_file: the new-file and update branches, the content-changed branch
\* after its destroy, and the rename branch's fallback; an exception leaves
\* update_assets
Upload(ok) ==
    /\ pc \in {"upload", "fallback"}
    /\ MayEnd(ok)
    /\ calls' = Append(calls, Call("upload", Scanned[idx].hash, info.ekey,
                                   UploadPublicId(Scanned[idx]), ok))
    /\ info' = IF ok
               THEN [info EXCEPT
                       !.image_url =
                           create_new_url(SecureUrl(UploadPublicId(Scanned[idx]))),
                       !.public_id = UploadPublicId(Scanned[idx])]
               ELSE info
    /\ pc' = IF ok THEN "display" ELSE "aborted"
    /\ nextfault' = Spend(ok)
    /\ UNCHANGED <<cfg, batch, fcall, kind, update_tags, files, disk, mem, base, idx, dels, didx,
                   run, ended>>

\* content-changed branch: cloudinary.uploader.destroy(old_public_id), in a try
DestroyOld(ok) ==
    /\ pc = "destroy_old"
    /\ MayEnd(ok)
    /\ calls' = Append(calls, Call("destroy", Scanned[idx].hash, info.ekey,
                                   _extract_public_id(Existing.image_url), ok))
    /\ pc' = "upload"
    /\ nextfault' = Spend(ok)
    /\ UNCHANGED <<cfg, batch, fcall, kind, update_tags, files, disk, mem, base, idx, info, dels,
                   didx, run, ended>>

\* a display-metadata update made outside of a try: its exception leaves
\* update_assets
UpdateDisplayNameRaising(ok) ==
    /\ pc = "display"
    /\ MayEnd(ok)
    /\ calls' = Append(calls, Call("display", Scanned[idx].hash, info.ekey,
                                   info.public_id, ok))
    /\ pc' = IF ok THEN "write" ELSE "aborted"
    /\ nextfault' = Spend(ok)
    /\ UNCHANGED <<cfg, batch, fcall, kind, update_tags, files, disk, mem, base, idx, info, dels,
                   didx, run, ended>>

\* _update_display_name: cloudinary.api.update in a try
UpdateDisplayName(ok) ==
    /\ pc = "display"
    /\ MayEnd(ok)
    /\ calls' = Append(calls, Call("display", Scanned[idx].hash, info.ekey,
                                   info.public_id, ok))
    /\ pc' = "write"
    /\ nextfault' = Spend(ok)
    /\ UNCHANGED <<cfg, batch, fcall, kind, update_tags, files, disk, mem, base, idx, info, dels,
                   didx, run, ended>>

----------------------------------------------------------------------------
(* The backends' writes.                                                   *)

\* LocalJsonSyncBackend.create_entry: _data after the call
JsonCreate(data, file_info, image_url) ==
    Put(data, file_info.hash, JsonRecord(file_info, image_url))

\* an update_entry that stores a fresh record in place of the old one
JsonUpdateReplacing(data, file_info, image_url, existing_entry) ==
    Put(Pop(data, existing_entry.hash), file_info.hash,
        JsonRecord(file_info, image_url))

\* LocalJsonSyncBackend.update_entry: _data after the call; the record popped
\* under the old hash is the object the engine holds as existing_entry
JsonUpdate(data, file_info, image_url, existing_entry) ==
    LET old_hash == existing_entry.hash
        new_hash == file_info.hash
        record   == IF HasKey(data, old_hash)
                    THEN Get(data, old_hash)
                    ELSE JsonRecord(file_info, image_url)
    IN  Put(Pop(data, old_hash), new_hash,
            [record EXCEPT !.id        = new_hash,
                           !.file_name = file_info.file_name,
                           !.raw_path  = file_info.raw_path,
                           !.image_url = image_url,
                           !.tags      = file_info.tags,
                           !.hash      = new_hash])

\* LocalJsonSyncBackend.delete_entry: _data after the call
JsonDelete(data, existing_entry) == Pop(data, existing_entry.hash)

\* NotionSyncBackend.create_entry: the database after add_page; the payload
\* carries the back-mapped keys of file_info, and an icon when the back
\* mapping declares one and a default icon is configured
NotionCreate(c, pages, file_info, image_url) ==
    Append(pages,
           [ id        |-> Len(pages) + 1,
             path      |-> IF "path" \in c.back_mapping
                           THEN file_info.raw_path ELSE <<>>,
             image_url |-> IF "image_url" \in c.back_mapping
                           THEN image_url ELSE NoUrl,
             tags      |-> IF "tags" \in c.back_mapping
                           THEN file_info.tags ELSE <<>>,
             hash      |-> IF "hash" \in c.back_mapping
                           THEN file_info.hash ELSE NoHash,
             icon      |-> IF "icon" \in c.back_mapping /\ c.default_icon
                           THEN "default" ELSE "none",
             archived  |-> FALSE ])

\* NotionSyncBackend.update_entry: the database after update_page on the
\* entry's page id with the mapped properties of file_info
NotionUpdate(c, pages, file_info, image_url, existing_entry) ==
    [i \in 1..Len(pages) |->
        IF pages[i].id = existing_entry.id
        THEN [pages[i] EXCEPT
                !.path      = IF "path" \in c.back_mapping
                              THEN file_info.raw_path ELSE @,
                !.image_url = IF "image_url" \in c.back_mapping
                              THEN image_url ELSE @,
                !.tags      = IF "tags" \in c.back_mapping
                              THEN file_info.tags ELSE @,
                !.hash      = IF "hash" \in c.back_mapping
                              THEN file_info.hash ELSE @,
                !.icon      = IF "icon" \in c.back_mapping /\ c.default_icon
                              THEN "default" ELSE @]
        ELSE pages[i]]

\* NotionSyncBackend.delete_entry: delete_page archives the page
NotionDelete(pages, existing_entry) ==
    [i \in 1..Len(pages) |->
        IF pages[i].id = existing_entry.id
        THEN [pages[i] EXCEPT !.archived = TRUE]
        ELSE pages[i]]

\* the engine's edit of the entry object after update_entry returned
EditEntry(k, entry, c, file_info) ==
    IF k = "json"
    THEN CASE c = "RENAME"  -> [entry EXCEPT !.raw_path  = file_info.raw_path,
                                             !.file_name = file_info.file_name]
           [] c = "CONTENT" -> [entry EXCEPT !.raw_path = file_info.raw_path,
                                             !.hash     = file_info.hash]
           [] OTHER         -> [entry EXCEPT !.raw_path = file_info.raw_path]
    ELSE [entry EXCEPT !.path = file_info.raw_path]

\* the dict with the object stored at position i replaced
EditAt(d, i, entry) == [d EXCEPT ![i] = entry]

IndexOf(d, k) == CHOOSE i \in 1..Len(d) : d[i].hash = k

\* the engine's edit applied to a copy of the log that update_entry never saw
MemAfterUpdateOnCopy(k, d, c, file_info, image_url, existing_entry) ==
    EditAt(d, IndexOf(d, existing_entry.hash),
           EditEntry(k, existing_entry, c, file_info))

\* existing_entries after update_entry and the engine's edit of the entry
MemAfterUpdate(k, d, c, file_info, image_url, existing_entry) ==
    IF k = "json"
    THEN LET d2 == JsonUpdate(d, file_info, image_url, existing_entry)
         IN  EditAt(d2, IndexOf(d2, file_info.hash),
                    EditEntry(k, Get(d2, file_info.hash), c, file_info))
    ELSE EditAt(d, IndexOf(d, existing_entry.hash),
                EditEntry(k, existing_entry, c, file_info))

\* new-file branch: sync_backend.create_entry(file_info)
CreateEntry(ok) ==
    /\ pc = "write"
    /\ info.case = "NEW"
    /\ MayEnd(ok)
    /\ ok \/ kind = "notion"
    /\ calls' = Append(calls, Call("create_entry", Scanned[idx].hash, 0,
                                   info.image_url, ok))
    /\ IF ~ok
       THEN UNCHANGED <<disk, mem>>
       ELSE IF kind = "json"
            THEN /\ mem' = JsonCreate(mem, Scanned[idx], info.image_url)
                 /\ disk' = JsonCreate(mem, Scanned[idx], info.image_url)
            ELSE /\ disk' = NotionCreate(cfg, disk, Scanned[idx], info.image_url)
                 /\ mem' = mem
    /\ pc' = IF ok THEN "item" ELSE "aborted"
    /\ idx' = IF ok THEN idx + 1 ELSE idx
    /\ nextfault' = Spend(ok)
    /\ UNCHANGED <<cfg, batch, fcall, kind, update_tags, files, base, info, dels, didx, run, ended>>

\* rename, update and content-changed branches:
\* sync_backend.update_entry(file_info, existing_entry), then the in-memory edit
UpdateEntry(ok) ==
    /\ pc = "write"
    /\ info.case # "NEW"
    /\ EntryCallEnds(ok, Existing)
    /\ calls' = Append(calls, Call("update_entry", Scanned[idx].hash, info.ekey,
                                   info.image_url, ok))
    /\ IF ~ok
       THEN UNCHANGED <<disk, mem>>
       ELSE /\ disk' = IF kind = "json"
                       THEN JsonUpdate(mem, Scanned[idx], info.image_url, Existing)
                       ELSE NotionUpdate(cfg, disk, Scanned[idx], info.image_url, Existing)
            /\ mem' = MemAfterUpdate(kind, mem, info.case, Scanned[idx],
                                     info.image_url, Existing)
    /\ pc' = IF ok THEN "item" ELSE "aborted"
    /\ idx' = IF ok THEN idx + 1 ELSE idx
    /\ nextfault' = SpendOnEntry(ok)
    /\ UNCHANGED <<cfg, batch, fcall, kind, update_tags, files, base, info, dels, didx, run, ended>>

----------------------------------------------------------------------------
(* The deletion phase.                                                     *)

\* whether some scanned file carries the entry's stored name (lower-cased)
FoundByName(k, existing_entry, scanned_files) ==
    \E i \in 1..Len(scanned_files) :
        Lower(StoredName(k, existing_entry)) = Lower(scanned_files[i].file_name)

\* the first loop is over: list(existing_entries.items())
BeginDeletions ==
    /\ pc = "item"
    /\ idx > Len(Scanned)
    /\ dels' = mem
    /\ didx' = 1
    /\ pc' = "del"
    /\ info' = NoInfo
    /\ UNCHANGED <<cfg, batch, fcall, kind, update_tags, files, disk, nextfault, mem, base, idx,
                   calls, run, ended>>

\* an entry whose name is on disk is left alone
KeepEntry ==
    /\ pc = "del"
    /\ didx <= Len(dels)
    /\ FoundByName(kind, dels[didx], files)
    /\ didx' = didx + 1
    /\ UNCHANGED <<cfg, batch, fcall, kind, update_tags, files, disk, nextfault, mem, base, pc, idx,
                   info, dels, calls, run, ended>>

\* sync_backend.delete_entry(existing_entry)
DeleteEntry(ok) ==
    /\ pc = "del"
    /\ didx <= Len(dels)
    /\ ~FoundByName(kind, dels[didx], files)
    /\ EntryCallEnds(ok, dels[didx])
    /\ calls' = Append(calls, Call("delete_entry", 0, dels[didx].hash,
                                   dels[didx].image_url, ok))
    /\ IF ~ok
       THEN UNCHANGED <<disk, mem>>
       ELSE IF kind = "json"
            THEN /\ mem' = JsonDelete(mem, dels[didx])
                 /\ disk' = IF HasKey(mem, dels[didx].hash)
                            THEN JsonDelete(mem, dels[didx])
                            ELSE disk
            ELSE /\ disk' = NotionDelete(disk, dels[didx])
                 /\ mem' = mem
    /\ pc' = IF ok THEN "destroy" ELSE "aborted"
    /\ nextfault' = SpendOnEntry(ok)
    /\ UNCHANGED <<cfg, batch, fcall, kind, update_tags, files, base, idx, info, dels, didx, run,
                   ended>>

\* cloudinary.uploader.destroy(public_id) of the deleted entry, in a try
DestroyAsset(ok) ==
    /\ pc = "destroy"
    /\ MayEnd(ok)
    /\ calls' = Append(calls, Call("destroy", 0, dels[didx].hash,
                                   _extract_public_id(dels[didx].image_url), ok))
    /\ pc' = "del"
    /\ didx' = didx + 1
    /\ nextfault' = Spend(ok)
    /\ UNCHANGED <<cfg, batch, fcall, kind, update_tags, files, disk, mem, base, idx, info, dels,
                   run, ended>>

\* "Sync complete."
Finish ==
    /\ pc = "del"
    /\ didx > Len(dels)
    /\ pc' = "done"
    /\ UNCHANGED <<cfg, batch, fcall, kind, update_tags, files, disk, nextfault, mem, base, idx,
                   info, dels, didx, calls, run, ended>>

----------------------------------------------------------------------------
(* Runs.                                                                   *)

\* the process is over (update_assets returned or raised); the job is run
\* again over the same folder
NextRun ==
    /\ pc \in {"done", "aborted"}
    /\ run < MaxRuns
    /\ ended' = Append(ended, pc)
    /\ run' = run + 1
    /\ pc' = "start"
    /\ mem' = <<>>
    /\ base' = <<>>
    /\ idx' = 0
    /\ info' = NoInfo
    /\ dels' = <<>>
    /\ didx' = 0
    /\ calls' = <<>>
    /\ UNCHANGED <<cfg, batch, fcall, kind, update_tags, files, disk, nextfault>>

\* the process is terminated after one remote call and before the next; the
\* job is run again
Terminate ==
    /\ pc \notin {"start", "done", "aborted"}
    /\ calls # <<>>
    /\ run < MaxRuns
    /\ ended' = Append(ended, "killed")
    /\ run' = run + 1
    /\ pc' = "start"
    /\ mem' = <<>>
    /\ base' = <<>>
    /\ idx' = 0
    /\ info' = NoInfo
    /\ dels' = <<>>
    /\ didx' = 0
    /\ calls' = <<>>
    /\ UNCHANGED <<cfg, batch, fcall, kind, update_tags, files, disk, nextfault>>

\* one step of update_assets
Step ==
    \/ StartRun
    \/ Classify
    \/ \E ok \in BOOLEAN : Rename(ok)
    \/ \E ok \in BOOLEAN : Resource(ok)
    \/ \E ok \in BOOLEAN : Upload(ok)
    \/ \E ok \in BOOLEAN : DestroyOld(ok)
    \/ \E ok \in BOOLEAN : UpdateDisplayName(ok)
    \/ \E ok \in BOOLEAN : CreateEntry(ok)
    \/ \E ok \in BOOLEAN : UpdateEntry(ok)
    \/ BeginDeletions
    \/ KeepEntry
    \/ \E ok \in BOOLEAN : DeleteEntry(ok)
    \/ \E ok \in BOOLEAN : DestroyAsset(ok)
    \/ Finish

Next == Step \/ NextRun

\* runs in which every remote call succeeds and no process is terminated
Spec == Init /\ [][Next]_vars

\* one run of update_assets, with update_tags on or off, over stores whose tag
\* lists were rewritten outside of the engine
SpecTags == InitTags /\ [][Step]_vars

\* one run of update_assets over stores that were also edited by hand: a
\* Notion database whose pages carry an icon set in Notion, under a back
\* mapping that may leave one local key out and with or without a default
\* icon, or a JSON log whose records carry a field of their owner's
SpecCfg == InitCfg /\ [][Step]_vars

\* one run of update_assets, over a folder of at most MaxFaultFiles files, in
\* which up to MaxFaults remote calls raise
SpecFault == InitWith(MaxFaults, MaxFaultFiles) /\ [][Step]_vars

\* one run of update_assets over a store in which records may lack their
\* content hash; every remote call succeeds
SpecMalformed == InitMalformed /\ [][Step]_vars

\* runs that may be terminated between two remote calls
SpecKill == Init /\ [][Next \/ Terminate]_vars

----------------------------------------------------------------------------
(* cli_sync: the jobs of sync_config.json run one after the other.  A job  *)
(* is its method type, whether its folder exists, whether its forward      *)
(* mapping declares a sync key, and whether its folder holds anything the  *)
(* store lacks.                                                            *)

\* most jobs in one batch
MaxJobs == 2

Methods == {"notiondb", "jsonlog", "other"}

Jobs ==
    [method : Methods, folder_exists : BOOLEAN, sync_key : BOOLEAN,
     changed : BOOLEAN]

JobSeqs(n) == UNION { [1..m -> Jobs] : m \in 0..n }

\* what a job did: a read of the Notion database, a scan of its folder, the
\* uploads and metadata writes of update_assets
Event(op, job) == [op |-> op, job |-> job]

InitBatch ==
    /\ cfg = DefaultCfg
    /\ batch \in { [NoBatch EXCEPT !.jobs = js, !.creds = c] :
                     js \in JobSeqs(MaxJobs), c \in BOOLEAN }
    /\ kind = "json"
    /\ update_tags = TRUE
    /\ files = <<>>
    /\ disk = <<>>
    /\ fcall = NoCall
    /\ nextfault = 0
    /\ mem = <<>>
    /\ base = <<>>
    /\ pc = "start"
    /\ idx = 0
    /\ info = NoInfo
    /\ dels = <<>>
    /\ didx = 0
    /\ calls = <<>>
    /\ run = 1
    /\ ended = <<>>

engine ==
    <<cfg, fcall, kind, update_tags, files, disk, nextfault, mem, base, pc, idx,
      info, dels, didx, calls, run, ended>>

\* an exception leaves cli_sync
Raised(b, error) == [b EXCEPT !.status = "raised", !.error = error]

\* the for loop moves to the next job, or ends with "Sync jobs complete."
NextJob(b) ==
    IF b.at = Len(b.jobs)
    THEN [b EXCEPT !.at = @ + 1, !.status = "complete"]
    ELSE [b EXCEPT !.at = @ + 1, !.step = "backend"]

\* cli_sync up to the loop: load the jobs, construct CloudinaryManager
BatchStart ==
    /\ batch.status = "none"
    /\ batch' = IF batch.jobs = <<>>
                THEN [batch EXCEPT !.status = "complete"]
                ELSE IF ~batch.creds
                     THEN Raised(batch, "config")
                     ELSE [batch EXCEPT !.status = "running", !.at = 1]
    /\ UNCHANGED engine

\* method type notiondb: NotionSyncBackend(...) reads the pages of the
\* database, then looks for the sync key
NotionBackend ==
    /\ batch.status = "running"
    /\ batch.step = "backend"
    /\ batch.jobs[batch.at].method = "notiondb"
    /\ LET b == [batch EXCEPT !.events = Append(@, Event("get_pages", batch.at))]
       IN  batch' = IF batch.jobs[batch.at].sync_key
                    THEN [b EXCEPT !.step = "assets"]
                    ELSE Raised(b, "config")
    /\ UNCHANGED engine

\* method type jsonlog: LocalJsonSyncBackend(dest_file) loads the log
JsonBackend ==
    /\ batch.status = "running"
    /\ batch.step = "backend"
    /\ batch.jobs[batch.at].method = "jsonlog"
    /\ batch' = [batch EXCEPT !.step = "assets"]
    /\ UNCHANGED engine

\* any other method type: "Unknown method type", continue
UnknownMethod ==
    /\ batch.status = "running"
    /\ batch.step = "backend"
    /\ batch.jobs[batch.at].method = "other"
    /\ batch' = NextJob(batch)
    /\ UNCHANGED engine

\* cloud_manager.update_assets(...) of the job: scan_folder raises when the
\* folder does not exist; otherwise the folder is scanned and what changed
\* is uploaded and written
UpdateAssets ==
    /\ batch.status = "running"
    /\ batch.step = "assets"
    /\ LET job == batch.jobs[batch.at]
           scanned == [batch EXCEPT !.events = Append(@, Event("scan", batch.at))]
           synced == IF job.changed
                     THEN [scanned EXCEPT
                             !.events = Append(@, Event("write", batch.at))]
                     ELSE scanned
       IN  batch' = IF job.folder_exists
                    THEN NextJob(synced)
                    ELSE Raised(batch, "not_found")
    /\ UNCHANGED engine

NextBatch ==
    \/ BatchStart
    \/ NotionBackend
    \/ JsonBackend
    \/ UnknownMethod
    \/ UpdateAssets

\* one invocation of the sync command over a batch of at most MaxJobs jobs
SpecBatch == InitBatch /\ [][NextBatch]_vars

----------------------------------------------------------------------------
(* The helper functions, called on their own: one call is one step, its    *)
(* arguments are drawn at the start and the program itself stays idle.     *)

program ==
    <<cfg, batch, kind, update_tags, files, disk, nextfault, mem, base, pc,
      idx, info, dels, didx, calls, run, ended>>

\* no job is running
Idle ==
    /\ cfg = DefaultCfg
    /\ batch = NoBatch
    /\ kind = "json"
    /\ update_tags = TRUE
    /\ files = <<>>
    /\ disk = <<>>
    /\ nextfault = 0
    /\ mem = <<>>
    /\ base = <<>>
    /\ pc = "start"
    /\ idx = 0
    /\ info = NoInfo
    /\ dels = <<>>
    /\ didx = 0
    /\ calls = <<>>
    /\ run = 1
    /\ ended = <<>>

\* how often one function is called with the same arguments
MaxCalls == 2

\* deepest folder nesting of a relative path
MaxDepth == 3

\* file.relative_to(folder): the folders from the root down, then the file
RelativePaths ==
    { dirs \o <<"file.png">> :
        dirs \in SeqsUpTo({"Programming", "Python", "My Dir", "Banner", "sub"}, MaxDepth) }

InitGenerateTags ==
    /\ Idle
    /\ fcall \in { [NoCall EXCEPT !.fn = "generate_tags",
                                  !.arg = [relative_path |-> p,
                                           root_category |-> c]] :
                     p \in RelativePaths, c \in {"banner", "My Dir"} }

\* tags = generate_tags(relative_path, root_category)
GenerateTags ==
    /\ fcall.fn = "generate_tags"
    /\ fcall.n < MaxCalls
    /\ fcall' = [fcall EXCEPT
                   !.out = generate_tags(fcall.arg.relative_path,
                                         fcall.arg.root_category),
                   !.n = @ + 1]
    /\ UNCHANGED program

SpecGenerateTags == InitGenerateTags /\ [][GenerateTags]_vars

----------------------------------------------------------------------------
(* NotionManager.build_notion_payload and transform_page, for a mapping of *)
(* one field.  A str is the sequence of its characters.  A flat value is   *)
(* None, a str, a list of str or a bool; a raw property is absent from the *)
(* page or carries its type and its body: the plain texts of its pieces,   *)
(* its url, the name of its option, the names or ids of its items, its     *)
(* flag.                                                                   *)

None == [t |-> "none"]
Str(s) == [t |-> "str", v |-> s]
List(l) == [t |-> "list", v |-> l]
Bool(b) == [t |-> "bool", v |-> b]

Absent == [type |-> "absent"]
Raw(type, body) == [type |-> type, body |-> body]

\* most items of a list value, most pieces of a text
MaxItems == 2

Texts == {<<>>, <<"a">>, <<"b">>}

\* "".join(pieces)
RECURSIVE Joined(_)
Joined(pieces) ==
    IF pieces = <<>> THEN <<>> ELSE Head(pieces) \o Joined(Tail(pieces))

\* the type tags with the return shapes transform_page knows for them
Shapes ==
    { [type |-> ty, return |-> "str"] :
        ty \in {"title", "rich_text", "url", "select", "status"} }
    \cup { [type |-> ty, return |-> "list"] :
             ty \in {"select", "multi_select", "relation"} }
    \cup { [type |-> "checkbox", return |-> "boolean"] }

\* the flat values of a return shape
FlatValues(return) ==
    {None} \cup
    CASE return = "str"  -> { Str(s) : s \in Texts }
      [] return = "list" -> { List(l) : l \in SeqsUpTo(Texts, MaxItems) }
      [] OTHER           -> { Bool(b) : b \in BOOLEAN }

\* the raw properties of a type that a page read from Notion can hold
RawValues(type) ==
    CASE type \in {"title", "rich_text"} ->
            { Raw(type, List(l)) : l \in SeqsUpTo(Texts, MaxItems) }
      [] type = "url" ->
            { Raw(type, b) : b \in {None} \cup { Str(s) : s \in Texts \ {<<>>} } }
      [] type \in {"select", "status"} ->
            { Raw(type, b) : b \in IF type = "select"
                                   THEN {None, Str(<<"a">>), Str(<<"b">>)}
                                   ELSE {Str(<<"a">>), Str(<<"b">>)} }
      [] type \in {"multi_select", "relation"} ->
            { Raw(type, List(l)) : l \in SeqsUpTo(Texts \ {<<>>}, MaxItems) }
      [] OTHER ->
            { Raw(type, Bool(b)) : b \in BOOLEAN }

\* Python truth value of a flat value
Truthy(value) ==
    CASE value.t = "none" -> FALSE
      [] value.t = "str"  -> value.v # <<>>
      [] value.t = "list" -> value.v # <<>>
      [] OTHER            -> value.v

\* build_notion_payload, one pass of its loop: the property built from
\* flat_object.get(flat_key), Absent when the value is None
build_property(value, conf) ==
    IF value = None THEN Absent
    ELSE CASE conf.type \in {"rich_text", "title"} ->
                 Raw(conf.type, List(<<value.v>>))
           [] conf.type = "url" -> Raw("url", value)
           [] conf.type = "relation" ->
                 Raw("relation",
                     IF value.t = "list"
                     THEN List(SelectSeq(value.v, LAMBDA rel : rel # <<>>))
                     ELSE List(<<value.v>>))
           [] conf.type = "select" ->
                 LET select_name == IF value.t = "list" /\ value.v # <<>>
                                    THEN Str(value.v[1]) ELSE value
                 IN  Raw("select", IF Truthy(select_name) THEN select_name ELSE None)
           [] conf.type = "multi_select" ->
                 Raw("multi_select",
                     IF value.t = "list" THEN value ELSE List(<<value.v>>))
           [] conf.type = "checkbox" -> Raw("checkbox", Bool(Truthy(value)))
           [] OTHER -> Raw("status", value)

\* transform_page, one pass of its loop: the flat value read off the raw
\* property
transform_property(raw, conf) ==
    IF raw = Absent THEN None
    ELSE CASE conf.return = "str" ->
                 CASE conf.type \in {"rich_text", "title"} ->
                         Str(Joined(raw.body.v))
                   [] OTHER -> raw.body
           [] conf.return = "list" ->
                 IF conf.type = "select"
                 THEN IF raw.body = None THEN List(<<>>) ELSE List(<<raw.body.v>>)
                 ELSE raw.body
           [] OTHER -> raw.body

InitRoundTrip ==
    /\ Idle
    /\ fcall \in
         UNION { { [NoCall EXCEPT !.fn = "build_transform",
                                  !.arg = [conf |-> c, value |-> v]] :
                     v \in FlatValues(c.return) } : c \in Shapes }
         \cup
         UNION { { [NoCall EXCEPT !.fn = "transform_build",
                                  !.arg = [conf |-> c, raw |-> r]] :
                     r \in RawValues(c.type) } : c \in Shapes }

\* transform_page(build_notion_payload(flat_object, back), forward)
BuildThenTransform ==
    /\ fcall.fn = "build_transform"
    /\ fcall.n = 0
    /\ fcall' = [fcall EXCEPT
                   !.out = transform_property(
                              build_property(fcall.arg.value, fcall.arg.conf),
                              fcall.arg.conf),
                   !.n = 1]
    /\ UNCHANGED program

\* build_notion_payload(transform_page(page, forward), back)
TransformThenBuild ==
    /\ fcall.fn = "transform_build"
    /\ fcall.n = 0
    /\ fcall' = [fcall EXCEPT
                   !.out = build_property(
                              transform_property(fcall.arg.raw, fcall.arg.conf),
                              fcall.arg.conf),
                   !.n = 1]
    /\ UNCHANGED program

SpecRoundTrip == InitRoundTrip /\ [][BuildThenTransform \/ TransformThenBuild]_vars

----------------------------------------------------------------------------
(* _extract_public_id, on a URL as the content store answers it and on the *)
(* same URL after create_new_url.                                          *)

\* deepest folder nesting of a public id
MaxFolders == 2

\* the secure_url values of uploaded assets, and the empty URL
SecureUrls ==
    { SecureUrl(folders \o <<stem>>) :
        folders \in SeqsUpTo({"banner", "v2", "sub"}, MaxFolders),
        stem \in {"a", "b", "v2"} }
    \cup {NoUrl}

InitPublicId ==
    /\ Idle
    /\ fcall \in { [NoCall EXCEPT !.fn = "_extract_public_id", !.arg = u] :
                     u \in SecureUrls }

\* _extract_public_id(u) and _extract_public_id(create_new_url(u))
ExtractPublicId ==
    /\ fcall.fn = "_extract_public_id"
    /\ fcall.n < MaxCalls
    /\ fcall' = [fcall EXCEPT
                   !.out = [plain |-> _extract_public_id(fcall.arg),
                            transformed |->
                               _extract_public_id(create_new_url(fcall.arg))],
                   !.n = @ + 1]
    /\ UNCHANGED program

SpecPublicId == InitPublicId /\ [][ExtractPublicId]_vars

----------------------------------------------------------------------------
(* scan_folder: the existence test, then one step for each path rglob("*") *)
(* yields, files and directories alike, then the return.                   *)

\* most paths under the scanned folder
MaxPaths == 2

\* what can lie under the folder: files with their content hash, and
\* directories
TreeEntries ==
    { [path |-> p, dir |-> FALSE, hash |-> h] :
        p \in { <<"a.jpg">>, <<"A.JPG">>, <<"b.svg">>, <<"notes.txt">>,
                <<"skip.png">>, <<"sub", "a.jpg">> },
        h \in {1, 2} }
    \cup { [path |-> p, dir |-> TRUE, hash |-> 0] :
             p \in { <<"sub">>, <<"pics.jpg">> } }

\* rglob yields every path once, a directory before what it holds
Trees ==
    { t \in SeqsUpTo(TreeEntries, MaxPaths) :
        /\ \A i, j \in 1..Len(t) : t[i].path = t[j].path => i = j
        /\ \A i \in 1..Len(t) :
              Len(t[i].path) > 1
              => \E j \in 1..(i - 1) :
                    t[j].dir /\ t[j].path = SubSeq(t[i].path, 1, Len(t[i].path) - 1) }

supported_extensions(root_category) ==
    {".jpg", ".jpeg", ".png", ".gif", ".bmp", ".webp", ".avif"}
    \cup (IF root_category = "icon" THEN {".svg"} ELSE {})

\* the test of the loop: extension allowed and name not skipped
Selected(entry, root_category, skip_files) ==
    /\ Lower(Suffix(BaseName(entry.path))) \in supported_extensions(root_category)
    /\ BaseName(entry.path) \notin skip_files

\* the descriptor appended for a file
ScanDescriptor(entry, root_category) ==
    [ file_name |-> BaseName(entry.path),
      raw_path  |-> entry.path,
      hash      |-> entry.hash,
      tags      |-> generate_tags(entry.path, root_category) ]

NoScan == [files_data |-> <<>>, hashed |-> <<>>, status |-> "called"]

InitScan ==
    /\ Idle
    /\ fcall \in { [NoCall EXCEPT
                      !.fn = "scan_folder",
                      !.arg = [exists |-> e, tree |-> t, root_category |-> c,
                               skip_files |-> k],
                      !.out = NoScan] :
                     e \in BOOLEAN, t \in Trees, c \in {"banner", "icon"},
                     k \in {{}, {"skip.png"}} }

\* if not expanded_folder_path.exists(): raise FileNotFoundError
ScanStart ==
    /\ fcall.fn = "scan_folder"
    /\ fcall.out.status = "called"
    /\ fcall' = [fcall EXCEPT
                   !.out.status = IF fcall.arg.exists THEN "scanning"
                                  ELSE "FileNotFoundError"]
    /\ UNCHANGED program

\* one pass of the loop over rglob("*"); compute_file_hash opens the path
\* and raises on a directory
ScanPath ==
    /\ fcall.fn = "scan_folder"
    /\ fcall.out.status = "scanning"
    /\ fcall.n < Len(fcall.arg.tree)
    /\ LET entry == fcall.arg.tree[fcall.n + 1]
       IN  fcall' =
             IF ~Selected(entry, fcall.arg.root_category, fcall.arg.skip_files)
             THEN [fcall EXCEPT !.n = @ + 1]
             ELSE IF entry.dir
                  THEN [fcall EXCEPT
                          !.out.hashed = Append(@, entry.path),
                          !.out.status = "IsADirectoryError"]
                  ELSE [fcall EXCEPT
                          !.n = @ + 1,
                          !.out.hashed = Append(@, entry.path),
                          !.out.files_data =
                             Append(@, ScanDescriptor(entry, fcall.arg.root_category))]
    /\ UNCHANGED program

\* return files_data
ScanReturn ==
    /\ fcall.fn = "scan_folder"
    /\ fcall.out.status = "scanning"
    /\ fcall.n = Len(fcall.arg.tree)
    /\ fcall' = [fcall EXCEPT !.out.status = "returned"]
    /\ UNCHANGED program

SpecScan == InitScan /\ [][ScanStart \/ ScanPath \/ ScanReturn]_vars

----------------------------------------------------------------------------
(* NotionManager.get_pages: the paginated read of the database.  The       *)
(* database holds the pages 1..total in the order the store serves them.   *)
(* A response to query_database carries at most page_size pages and, the   *)
(* store being free to serve fewer, at most chunk of them, starting at     *)
(* start_cursor; has_more tells whether pages remain after it and          *)
(* next_cursor where they start.  num_pages = 0 stands for the default     *)
(* None: the code tests num_pages by truth value only.                     *)

MaxTotal == 4

MaxChunk == 2

MaxLimit == 3

DefaultPageSize == 100

Min(a, b) == IF a <= b THEN a ELSE b

PageSize(num_pages) == Min(IF num_pages # 0 THEN num_pages ELSE DefaultPageSize, DefaultPageSize)

query_database(total, chunk, page_size, start_cursor) ==
    LET last == Min(total, start_cursor + Min(page_size, chunk) - 1)
    IN  [results     |-> [i \in 1..(last - start_cursor + 1) |-> start_cursor + i - 1],
         has_more    |-> last < total,
         next_cursor |-> last + 1]

ReadsOnlyFirstResponse(response, results, num_pages, retrieve_all) == FALSE

KeepsQuerying(response, results, num_pages, retrieve_all) ==
    /\ response.has_more
    /\ ~(~retrieve_all /\ num_pages # 0 /\ Len(results) >= num_pages)

Sliced(results, num_pages, retrieve_all) ==
    IF num_pages # 0 /\ ~retrieve_all
    THEN SubSeq(results, 1, Min(num_pages, Len(results)))
    ELSE results

\* results = [], no start_cursor in the payload: the store starts at its
\* first page
InitGetPages ==
    /\ Idle
    /\ \E t \in 0..MaxTotal, c \in 1..MaxChunk, n \in 0..MaxLimit, r \in BOOLEAN :
          fcall = [fn  |-> "get_pages",
                   arg |-> [total |-> t, chunk |-> c, num_pages |-> n,
                            retrieve_all |-> r],
                   out |-> [results |-> <<>>, cursors |-> <<>>, start_cursor |-> 1,
                            status |-> "querying"],
                   n   |-> 0]

QueryDatabase ==
    /\ fcall.fn = "get_pages"
    /\ fcall.out.status = "querying"
    /\ LET a        == fcall.arg
           o        == fcall.out
           response == query_database(a.total, a.chunk, PageSize(a.num_pages), o.start_cursor)
           results  == o.results \o response.results
           more     == KeepsQuerying(response, results, a.num_pages, a.retrieve_all)
       IN  fcall' = [fcall EXCEPT
                       !.out = [results      |-> results,
                                cursors      |-> Append(o.cursors, o.start_cursor),
                                start_cursor |-> IF response.has_more THEN response.next_cursor
                                                 ELSE o.start_cursor,
                                status       |-> IF more THEN "querying" ELSE "collected"]]
    /\ UNCHANGED program

GetPagesReturn ==
    /\ fcall.fn = "get_pages"
    /\ fcall.out.status = "collected"
    /\ fcall' = [fcall EXCEPT
                   !.out.results = Sliced(fcall.out.results, fcall.arg.num_pages, fcall.arg.retrieve_all),
                   !.out.status = "returned",
                   !.n = 1]
    /\ UNCHANGED program

SpecGetPages == InitGetPages /\ [][QueryDatabase \/ GetPagesReturn]_vars

----------------------------------------------------------------------------
(* LocalJsonSyncBackend called directly: _data as a dict from keys to      *)
(* records, each record with its own id and hash fields, under any         *)
(* sequence of create_entry, update_entry and delete_entry calls.  The     *)
(* existing_entry of a call is any record that has a hash.                 *)

MaxLogCalls == 2

LogNames == {"a.jpg", "b.jpg"}

LogRecord(h, name) == [id |-> h, hash |-> h, file_name |-> name]

LogFileInfos == { [hash |-> h, file_name |-> name] : h \in Hashes, name \in LogNames }

LogEntries ==
    { [id |-> i, hash |-> h, file_name |-> name] :
        i \in Hashes, h \in Hashes, name \in LogNames }

\* d[k] = record
Store(d, k, record) ==
    [x \in DOMAIN d \cup {k} |-> IF x = k THEN record ELSE d[x]]

\* d.pop(k, {}) / del d[k]: the dict without the key
Remove(d, k) == [x \in DOMAIN d \ {k} |-> d[x]]

create_entry(data, file_info) ==
    Store(data, file_info.hash, LogRecord(file_info.hash, file_info.file_name))

\* an update_entry that puts the record back under the hash it was found at
update_entry_in_place(data, file_info, existing_entry) ==
    LET old_hash == existing_entry.hash
        new_hash == file_info.hash
        record   == [id |-> new_hash, file_name |-> file_info.file_name,
                     hash |-> new_hash]
    IN  Store(Remove(data, old_hash), old_hash, record)

\* record = self._data.pop(old_hash, {}); record.update(...): every field of
\* the record modelled here is overwritten; self._data[new_hash] = record
update_entry(data, file_info, existing_entry) ==
    LET old_hash == existing_entry.hash
        new_hash == file_info.hash
        record   == [id |-> new_hash, file_name |-> file_info.file_name,
                     hash |-> new_hash]
    IN  Store(Remove(data, old_hash), new_hash, record)

delete_entry(data, existing_entry) ==
    IF existing_entry.hash \in DOMAIN data
    THEN Remove(data, existing_entry.hash)
    ELSE data

\* a log the backend itself has written, and no call made yet
InitJsonLog ==
    /\ Idle
    /\ \E keys \in SUBSET Hashes : \E names \in [keys -> LogNames] :
          fcall = [fn  |-> "LocalJsonSyncBackend",
                   arg |-> [op |-> "none", old_hash |-> 0, new_hash |-> 0],
                   out |-> [k \in keys |-> LogRecord(k, names[k])],
                   n   |-> 0]

LogCreateEntry ==
    /\ fcall.fn = "LocalJsonSyncBackend"
    /\ fcall.n < MaxLogCalls
    /\ \E file_info \in LogFileInfos :
          fcall' = [fcall EXCEPT
                      !.arg = [op |-> "create_entry", old_hash |-> 0,
                               new_hash |-> file_info.hash],
                      !.out = create_entry(fcall.out, file_info),
                      !.n = @ + 1]
    /\ UNCHANGED program

LogUpdateEntry ==
    /\ fcall.fn = "LocalJsonSyncBackend"
    /\ fcall.n < MaxLogCalls
    /\ \E file_info \in LogFileInfos, existing_entry \in LogEntries :
          fcall' = [fcall EXCEPT
                      !.arg = [op |-> "update_entry", old_hash |-> existing_entry.hash,
                               new_hash |-> file_info.hash],
                      !.out = update_entry(fcall.out, file_info, existing_entry),
                      !.n = @ + 1]
    /\ UNCHANGED program

LogDeleteEntry ==
    /\ fcall.fn = "LocalJsonSyncBackend"
    /\ fcall.n < MaxLogCalls
    /\ \E existing_entry \in LogEntries :
          fcall' = [fcall EXCEPT
                      !.arg = [op |-> "delete_entry", old_hash |-> existing_entry.hash,
                               new_hash |-> 0],
                      !.out = delete_entry(fcall.out, existing_entry),
                      !.n = @ + 1]
    /\ UNCHANGED program

SpecJsonLog == InitJsonLog /\ [][LogCreateEntry \/ LogUpdateEntry \/ LogDeleteEntry]_vars

\* a folder and a store in which two names may differ in their extension only
SameStemFiles ==
    { FileInfo(p, h) : p \in { <<"a.jpg">>, <<"a.png">>, <<"b.jpg">> }, h \in Hashes }

SameStemLogs(n) ==
    { s \in SeqsUpTo({ JsonRecord(f, StoredUrl(f)) : f \in SameStemFiles }, n) :
        Ascending(s) /\ DistinctPaths(s) }

SameStemStores(k, n) ==
    IF k = "json" THEN SameStemLogs(n)
    ELSE { [i \in 1..Len(s) |-> NotionPage(i, s[i], s[i].image_url)] :
             s \in SameStemLogs(n) }

InitSameStem ==
    /\ cfg = DefaultCfg
    /\ batch = NoBatch
    /\ kind \in Kinds
    /\ update_tags \in {TRUE}
    /\ files \in { s \in SeqsUpTo(SameStemFiles, MaxFiles) : DistinctPaths(s) }
    /\ disk \in SameStemStores(kind, MaxEntries)
    /\ fcall = NoCall
    /\ nextfault = 0
    /\ mem = <<>>
    /\ base = <<>>
    /\ pc = "start"
    /\ idx = 0
    /\ info = NoInfo
    /\ dels = <<>>
    /\ didx = 0
    /\ calls = <<>>
    /\ run = 1
    /\ ended = <<>>

\* one run of update_assets over such a folder, every remote call succeeding
SpecSameStem == InitSameStem /\ [][Step]_vars

\* such a folder of at most MaxFiles files over a store of at most
\* MaxSlipEntries entries, in a run in which up to MaxSlips remote calls raise
MaxSlips == 1

MaxSlipEntries == 1

InitSlip ==
    /\ cfg = DefaultCfg
    /\ batch = NoBatch
    /\ kind \in Kinds
    /\ update_tags \in {TRUE}
    /\ files \in { s \in SeqsUpTo(SameStemFiles, MaxFiles) : DistinctPaths(s) }
    /\ disk \in SameStemStores(kind, MaxSlipEntries)
    /\ fcall = NoCall
    /\ nextfault = MaxSlips
    /\ mem = <<>>
    /\ base = <<>>
    /\ pc = "start"
    /\ idx = 0
    /\ info = NoInfo
    /\ dels = <<>>
    /\ didx = 0
    /\ calls = <<>>
    /\ run = 1
    /\ ended = <<>>

\* one run of update_assets in which remote calls may raise
SpecSlip == InitSlip /\ [][Step]_vars

----------------------------------------------------------------------------
(* Claims.                                                                 *)

\* the calls that write to the content store or to the metadata backend
WriteOps == {"upload", "rename", "destroy", "create_entry", "update_entry",
             "delete_entry"}

CallsOf(ops) == { i \in 1..Len(calls) : calls[i].op \in ops }

\* C1. Idempotence: after one complete run in which every remote call
\* succeeded, the second run over the unchanged files issues no upload,
\* rename, destroy, create_entry, update_entry or delete_entry call.
C1_SecondRunWritesNothing ==
    (run = 2 /\ ended = <<"done">>) => CallsOf(WriteOps) = {}

\* the calls `op` of the current run made on the stored entry `entry_key`
CallsOn(op, entry_key) ==
    { i \in 1..Len(calls) : calls[i].op = op /\ calls[i].key = entry_key }

\* the calls `op` of the current run made for the local file `file_hash`
CallsFor(op, file_hash) ==
    { i \in 1..Len(calls) : calls[i].op = op /\ calls[i].file = file_hash }

\* the scan holds hash h, and only under names other than `name`
HeldUnderOtherName(h, name) ==
    /\ \E j \in 1..Len(files) : files[j].hash = h
    /\ \A j \in 1..Len(files) : files[j].hash = h => files[j].file_name # name

\* C2. Hash stability under rename: when the baseline holds an entry for
\* hash H under one file name and the scan holds H under a different file
\* name, a complete run issues for that entry exactly one rename attempt and
\* exactly one update_entry, and no create_entry and no delete_entry.
C2_RenameIsOneRenameOneUpdate ==
    pc = "done" =>
        \A i \in 1..Len(base) :
            HeldUnderOtherName(base[i].hash, StoredName(kind, base[i]))
            => /\ Cardinality(CallsOn("rename", base[i].hash)) = 1
               /\ Cardinality(CallsOn("update_entry", base[i].hash)) = 1
               /\ CallsFor("create_entry", base[i].hash) = {}
               /\ CallsOn("delete_entry", base[i].hash) = {}

\* the file names for which the current run called create_entry
CreatedNames ==
    { Get(Scanned, calls[i].file).file_name : i \in CallsOf({"create_entry"}) }

\* destroy of e's asset, upload of f and update_entry of e by f, in this order
DestroyUploadUpdate(f, e) ==
    \E i, j, k \in 1..Len(calls) :
        /\ i < j /\ j < k
        /\ calls[i].op = "destroy" /\ calls[i].key = e.hash
        /\ calls[i].arg = _extract_public_id(e.image_url)
        /\ calls[j].op = "upload" /\ calls[j].file = f.hash
        /\ calls[k].op = "update_entry" /\ calls[k].file = f.hash
        /\ calls[k].key = e.hash

\* C3. Content-change detection: when a local file's hash is absent from
\* the baseline but a baseline entry has the same file name, a complete run
\* destroys the old asset (public id from the entry's stored URL), uploads
\* the file and calls update_entry on that entry with the new hash, in this
\* order, and never calls create_entry for that file name.
C3_ContentChangeIsDestroyUploadUpdate ==
    pc = "done" =>
        \A j \in 1..Len(files) :
            (~HasKey(base, files[j].hash)
                /\ \E i \in 1..Len(base) :
                      StoredName(kind, base[i]) = files[j].file_name)
            => /\ \E i \in 1..Len(base) :
                      /\ StoredName(kind, base[i]) = files[j].file_name
                      /\ DestroyUploadUpdate(files[j], base[i])
               /\ files[j].file_name \notin CreatedNames

\* no baseline entry carries the file's name, in either letter case
NameIsNew(f) ==
    \A i \in 1..Len(base) :
        Lower(StoredName(kind, base[i])) # Lower(f.file_name)

\* C4. Pure addition: every local file whose hash is absent from the
\* baseline and whose name matches no baseline entry gets, in a complete
\* run, exactly one upload and exactly one create_entry, no update_entry
\* and no delete_entry; also when the run holds several such files.
C4_NewFileIsOneUploadOneCreate ==
    pc = "done" =>
        \A j \in 1..Len(Scanned) :
            (~HasKey(base, Scanned[j].hash) /\ NameIsNew(Scanned[j]))
            => /\ Cardinality(CallsFor("upload", Scanned[j].hash)) = 1
               /\ Cardinality(CallsFor("create_entry", Scanned[j].hash)) = 1
               /\ CallsFor("update_entry", Scanned[j].hash) = {}
               /\ CallsOn("update_entry", Scanned[j].hash) = {}
               /\ CallsOn("delete_entry", Scanned[j].hash) = {}

\* the scan holds no file with hash h
AbsentLocally(h) == \A j \in 1..Len(files) : files[j].hash # h

\* the deletion phase's destroy attempts on the asset of entry e
DestroysOf(e) ==
    { i \in CallsOn("destroy", e.hash) :
        calls[i].file = 0 /\ calls[i].arg = _extract_public_id(e.image_url) }

\* C5. Pure removal: every baseline entry whose hash is absent from the
\* scan, and which no content-changed file consumed as its same-name match,
\* gets in a complete run exactly one delete_entry and one destroy attempt
\* on the public id of its stored URL, whatever the names of the local files.
C5_RemovedEntryIsDeletedOnce ==
    pc = "done" =>
        \A i \in 1..Len(base) :
            (AbsentLocally(base[i].hash)
                /\ CallsOn("update_entry", base[i].hash) = {})
            => /\ Cardinality(CallsOn("delete_entry", base[i].hash)) = 1
               /\ Cardinality(DestroysOf(base[i])) = 1

\* C6. Per-item failure isolation: a failing upload, create_entry,
\* update_entry or delete_entry is contained at its item; it never makes
\* update_assets end before the other files and entries are processed.
C6_WriteFailureDoesNotAbort ==
    (\E i \in 1..Len(calls) :
        /\ ~calls[i].ok
        /\ calls[i].op \in {"upload", "create_entry", "update_entry", "delete_entry"})
    => pc # "aborted"

\* the position of hash h in scanned_by_hash
ItemIndex(h) == CHOOSE j \in 1..Len(Scanned) : Scanned[j].hash = h

\* the run is past the item of hash h: its branch ran to its end
ItemOver(h) ==
    \/ pc \in {"del", "destroy", "done"}
    \/ pc = "item" /\ idx > ItemIndex(h)

\* the hashes whose item took the rename branch in this run
Renamed == { calls[i].file : i \in CallsOf({"rename"}) }

\* the rename or the resource lookup of hash h raised
RenameRaised(h) ==
    \E i \in CallsFor("rename", h) \cup CallsFor("resource", h) : ~calls[i].ok

\* C7. Rename fallback: in the rename branch, if the rename or the resource
\* lookup raises, the file is uploaded exactly once and update_entry is still
\* called, with the asset URL and public id of the upload response; if they
\* succeed, no upload is made and the URL is that of the renamed resource.
C7_RenameFallsBackToUpload ==
    \A h \in Renamed :
        LET f       == Get(Scanned, h)
            uploads == CallsFor("upload", h)
            updates == CallsFor("update_entry", h)
            started == pc \in {"rename", "resource", "fallback"} /\ idx = ItemIndex(h)
        IN  /\ Cardinality(uploads) = (IF RenameRaised(h) /\ ~started THEN 1 ELSE 0)
            /\ \A i \in updates :
                  calls[i].arg =
                      create_new_url(SecureUrl(IF RenameRaised(h)
                                                THEN UploadPublicId(f)
                                                ELSE RenamePublicId(f)))
            /\ \A i \in CallsFor("display", h) :
                  calls[i].arg = IF RenameRaised(h) THEN UploadPublicId(f)
                                 ELSE RenamePublicId(f)
            /\ ItemOver(h) => Cardinality(updates) = 1
            /\ (pc = "aborted" /\ idx = ItemIndex(h) /\ updates = {})
                  => \E i \in uploads : ~calls[i].ok

\* a rename raised, the file was uploaded and update_entry was called
C7_Witness ==
    \E h \in Renamed :
        /\ RenameRaised(h)
        /\ \E i \in CallsFor("upload", h) : calls[i].ok
        /\ CallsFor("update_entry", h) # {}
        /\ ItemOver(h)

\* the hashes under which the JSON log holds a record
StoredHashes == { disk[i].hash : i \in 1..Len(disk) }

\* the hashes of the files of the folder
LocalHashes == { files[j].hash : j \in 1..Len(files) }

\* C8. No duplicate hash: in a run, create_entry is called at most once for a
\* hash and never for a hash the baseline already holds, identical-content
\* files included; the JSON log holds at most one record per hash.
C8_NoDuplicateHash ==
    /\ \A h \in Hashes : Cardinality(CallsFor("create_entry", h)) <= 1
    /\ \A i \in CallsOf({"create_entry"}) : ~HasKey(base, calls[i].file)
    /\ kind = "json" => \A i, j \in 1..Len(disk) : disk[i].hash = disk[j].hash => i = j

\* C9. Convergence: with the JSON backend and every call succeeding, when
\* update_assets returns the keys of the log are the hashes of the local
\* files.
C9_JsonLogConverges ==
    (kind = "json" /\ pc = "done") => StoredHashes = LocalHashes

\* the indices of the entries the metadata backend holds for hash h
EntriesOf(h) ==
    { i \in 1..Len(disk) :
        disk[i].hash = h /\ (kind = "notion" => ~disk[i].archived) }

\* C10. Recovery after termination: when a run was terminated between two
\* remote calls, the complete run that follows ends with exactly one entry
\* for every local hash and none for a hash absent from the folder, and the
\* run after that one makes no call at all.
C10_RecoversAfterTermination ==
    /\ (pc = "done" /\ run >= 2 /\ ended[run - 1] = "killed")
          => \A h \in Hashes :
                Cardinality(EntriesOf(h)) = (IF h \in LocalHashes THEN 1 ELSE 0)
    /\ (run = 3 /\ ended = <<"killed", "done">>) => calls = <<>>

\* C11. Baseline snapshot: every local file is classified, by hash and by
\* name, against the entries fetched at the start of the run; what the engine
\* created, re-keyed or updated earlier in the run does not change the case
\* or the entry a later file is matched with.
C11_ClassifiedAgainstBaseline ==
    (pc = "item" /\ idx <= Len(Scanned))
    => /\ CaseOf(kind, mem, Scanned[idx], update_tags)
            = CaseOf(kind, base, Scanned[idx], update_tags)
       /\ EntryKeyOf(kind, mem, Scanned[idx])
            = EntryKeyOf(kind, base, Scanned[idx])

\* the local-log records that hold what the entries d of backend k hold
JsonView(k, d) ==
    IF k = "json"
    THEN d
    ELSE [i \in 1..Len(d) |->
            [ id        |-> d[i].id,
              file_name |-> BaseName(d[i].path),
              raw_path  |-> d[i].path,
              image_url |-> d[i].image_url,
              tags      |-> d[i].tags,
              hash      |-> d[i].hash ]]

\* the remote-document entries that hold what the entries d of backend k hold
NotionView(k, d) ==
    IF k = "notion"
    THEN d
    ELSE [i \in 1..Len(d) |->
            [ id        |-> d[i].id,
              path      |-> d[i].raw_path,
              image_url |-> d[i].image_url,
              tags      |-> d[i].tags,
              hash      |-> d[i].hash ]]

\* C12. Backend substitutability: over baselines that hold the same entries,
\* a local file is classified into the same case, against the same entry,
\* whichever backend variant is used, names that differ only in letter case
\* included (stated for the first file of a run, classified while the
\* entries are still as fetched).
C12_SameCaseOnBothBackends ==
    (pc = "item" /\ idx = 1 /\ idx <= Len(Scanned))
    => /\ CaseOf("json", JsonView(kind, mem), Scanned[idx], update_tags)
            = CaseOf("notion", NotionView(kind, mem), Scanned[idx], update_tags)
       /\ EntryKeyOf("json", JsonView(kind, mem), Scanned[idx])
            = EntryKeyOf("notion", NotionView(kind, mem), Scanned[idx])

\* C13. Default icon only on create: with the Notion backend, create_entry
\* gives the new page the default icon exactly when the back mapping
\* declares an icon and a default icon is configured, and update_entry (the
\* engine never puts an icon into the file descriptor) writes no icon: every
\* page keeps the icon it had.
C13_IconOnlyOnCreate ==
    [][(kind = "notion" /\ pc = "write" /\ pc' = "item")
        => IF info.case = "NEW"
           THEN /\ Len(disk') = Len(disk) + 1
                /\ disk'[Len(disk')].icon
                     = (IF "icon" \in cfg.back_mapping /\ cfg.default_icon
                        THEN "default" ELSE "none")
                /\ \A i \in 1..Len(disk) : disk'[i].icon = disk[i].icon
           ELSE \A i \in 1..Len(disk) : disk'[i].icon = disk[i].icon]_vars

\* the set of the tags of a list
TagSet(tags) == { tags[i] : i \in 1..Len(tags) }

\* the file about to be classified has the hash, the file name and the
\* source path of an entry of existing_entries
SameFileAs(existing_entries, f) ==
    /\ HasKey(existing_entries, f.hash)
    /\ StoredName(kind, Get(existing_entries, f.hash)) = f.file_name
    /\ StoredPath(kind, Get(existing_entries, f.hash)) = f.raw_path

\* C14. Tag comparison is order-insensitive: for a file whose hash, name and
\* path match a stored entry (update_tags on), the engine takes the update
\* branch exactly when the stored tags and the local tags differ as sets; a
\* stored list that is a permutation of the local one gives NO-OP.
C14_TagsComparedAsSets ==
    (pc = "item" /\ idx <= Len(Scanned) /\ update_tags
        /\ SameFileAs(mem, Scanned[idx]))
    => (CaseOf(kind, mem, Scanned[idx], update_tags) = "NOOP"
          <=> TagSet(Get(mem, Scanned[idx].hash).tags) = TagSet(Scanned[idx].tags))

\* the calls of the run made for the local file of hash h
CallsAbout(h) == { i \in 1..Len(calls) : calls[i].file = h }

\* C15. UPDATE versus NO-OP: a local file whose hash and file name both match
\* a baseline entry gets one upload and one update_entry when the stored
\* path differs from its raw path, or when the tags differ and update_tags is
\* on; otherwise (tags differing with update_tags off included) no call at
\* all is made for it.
C15_UpdateOrNoop ==
    pc = "done"
    => \A j \in 1..Len(Scanned) :
          LET f == Scanned[j]
              e == Get(base, f.hash)
          IN  (HasKey(base, f.hash) /\ StoredName(kind, e) = f.file_name)
              => IF \/ StoredPath(kind, e) # f.raw_path
                    \/ (update_tags /\ TagSet(e.tags) # TagSet(f.tags))
                 THEN /\ Cardinality(CallsFor("upload", f.hash)) = 1
                      /\ Cardinality(CallsFor("update_entry", f.hash)) = 1
                 ELSE CallsAbout(f.hash) = {}

\* the keys LocalJsonSyncBackend.update_entry writes into a record
WrittenKeys == {"id", "file_name", "raw_path", "image_url", "tags", "hash"}

\* the page properties the engine's file descriptor can fill
PropertyKeys == {"path", "image_url", "tags", "hash"}

\* the value update_entry sends for a page property
SentValue(k, file_info, image_url) ==
    CASE k = "path"      -> file_info.raw_path
      [] k = "image_url" -> image_url
      [] k = "tags"      -> file_info.tags
      [] OTHER           -> file_info.hash

\* an update_entry step that returned
UpdateEntryReturns == pc = "write" /\ info.case # "NEW" /\ pc' = "item"

C17_LogFilePersisted ==
    (kind = "json" /\ pc # "start") => disk = mem

\* a finished local-log run that called update_entry and delete_entry and
\* left a record in the log
C17_Witness ==
    /\ kind = "json"
    /\ pc = "done"
    /\ mem # <<>>
    /\ \E i \in CallsOf({"update_entry"}) : calls[i].ok
    /\ \E i \in CallsOf({"delete_entry"}) : calls[i].ok

\* cli_sync has returned or raised
BatchOver == batch.status \in {"complete", "raised"}

EventsOf(j, ops) ==
    { i \in 1..Len(batch.events) :
        batch.events[i].job = j /\ batch.events[i].op \in ops }

\* the jobs whose configuration is in error: a Notion job whose forward
\* mapping declares no sync key
FaultyJobs ==
    { j \in 1..Len(batch.jobs) :
        batch.jobs[j].method = "notiondb" /\ ~batch.jobs[j].sync_key }

\* C18. In a batch with credentials and no faulty job, a job whose folder
\* does not exist makes no remote call and scans nothing, and every other
\* job of a known method has been run when the command is over.
C18_MissingFolderFailsItsJobOnly ==
    (BatchOver /\ batch.creds /\ FaultyJobs = {})
    => \A j \in 1..Len(batch.jobs) :
          batch.jobs[j].method # "other"
          => IF batch.jobs[j].folder_exists
             THEN EventsOf(j, {"scan"}) # {}
             ELSE EventsOf(j, {"get_pages", "scan", "write"}) = {}

\* C19. When the batch has jobs, all their folders exist, and the
\* credentials are missing or a job is faulty, the command raises a
\* configuration error and no folder was scanned and nothing was uploaded
\* or written, wherever the faulty job is in the batch.
C19_ConfigErrorBeforeAnyScan ==
    (/\ BatchOver
     /\ batch.jobs # <<>>
     /\ \A j \in 1..Len(batch.jobs) : batch.jobs[j].folder_exists
     /\ (~batch.creds \/ FaultyJobs # {}))
    => /\ batch.status = "raised"
       /\ batch.error = "config"
       /\ \A j \in 1..Len(batch.jobs) : EventsOf(j, {"scan", "write"}) = {}

\* C20. A record that lacks its content hash is not in the baseline, in
\* either backend, and the run does not raise.
C20_MalformedRecordsSkipped ==
    /\ pc # "aborted"
    /\ pc # "start"
       => \A i \in 1..Len(base) :
             HasHashField(base[i]) /\ base[i].hash # NoHash

\* a call of the helper function returned
Returned == fcall'.n = fcall.n + 1

\* position of the first element of s that normalises to t
FirstAt(s, t) == CHOOSE i \in 1..Len(s) : NormTag(s[i]) = t /\ \A j \in 1..(i - 1) : NormTag(s[j]) # t

\* C21. generate_tags returns the normalised category first, then the
\* normalised parent folders from the root down, the file name left out,
\* each once and in the order of first occurrence; a repeated call with the
\* same arguments returns the same list; Programming/Python/file.png under
\* banner gives banner, programming, python.
C21_GenerateTags ==
    [][(fcall.fn = "generate_tags" /\ Returned)
        => LET rp == fcall.arg.relative_path
               named == <<fcall.arg.root_category>> \o SubSeq(rp, 1, Len(rp) - 1)
               out == fcall'.out
           IN  /\ out[1] = NormTag(fcall.arg.root_category)
               /\ \A i, j \in 1..Len(out) : out[i] = out[j] => i = j
               /\ { out[i] : i \in 1..Len(out) }
                     = { NormTag(named[i]) : i \in 1..Len(named) }
               /\ \A i, j \in 1..Len(out) :
                     i < j => FirstAt(named, out[i]) < FirstAt(named, out[j])
               /\ (rp = <<"Programming", "Python", "file.png">>
                     /\ fcall.arg.root_category = "banner")
                  => out = <<"banner", "programming", "python">>
               /\ fcall.n > 0 => out = fcall.out]_vars

\* two calls on a path whose folders repeat the category and hold a space
C21_Witness ==
    /\ fcall.fn = "generate_tags"
    /\ fcall.n = 2
    /\ fcall.arg.relative_path = <<"Banner", "My Dir", "Banner", "file.png">>
    /\ fcall.arg.root_category = "banner"
    /\ fcall.out = <<"banner", "my_dir">>

\* C22. With a forward and a back mapping of the same type and return
\* shape, transform_page of the payload built from a flat value gives that
\* value back, and the payload built from the transformed raw property
\* holds the value the raw property held.
C22_FieldMappingRoundTrip ==
    /\ (fcall.fn = "build_transform" /\ fcall.n = 1)
       => fcall.out = fcall.arg.value
    /\ (fcall.fn = "transform_build" /\ fcall.n = 1)
       => transform_property(fcall.out, fcall.arg.conf)
             = transform_property(fcall.arg.raw, fcall.arg.conf)

\* C23. _extract_public_id gives the same id for a secure URL and for that
\* URL with the transformation segment inserted; that id is the public id
\* of the asset, without the version and the extension; the empty URL
\* gives the empty id; a repeated call gives the same id.
C23_PublicIdDerivation ==
    [][(fcall.fn = "_extract_public_id" /\ Returned)
        => /\ fcall'.out.transformed = fcall'.out.plain
           /\ fcall'.out.transformed = fcall.arg.pid
           /\ fcall.arg = NoUrl => fcall'.out.plain = <<>>
           /\ fcall.n > 0 => fcall'.out = fcall.out]_vars

\* the files of the tree scan_folder has to return: allowed extension
\* (.svg only for icon), name not skipped
Qualifying(tree, root_category, skip_files) ==
    SelectSeq(tree, LAMBDA entry :
        /\ ~entry.dir
        /\ Lower(Suffix(BaseName(entry.path)))
              \in {".jpg", ".jpeg", ".png", ".gif", ".bmp", ".webp", ".avif"}
                  \cup (IF root_category = "icon" THEN {".svg"} ELSE {})
        /\ BaseName(entry.path) \notin skip_files)

\* C24. scan_folder on a missing folder raises not-found with nothing
\* returned; on a folder it returns one descriptor for each file whose
\* lower-cased extension is allowed (.svg only for the category icon) and
\* whose name is not a skip name; only those files are ever hashed, and no
\* remote call is made.
C24_ScanFilter ==
    fcall.fn = "scan_folder"
    => LET wanted == Qualifying(fcall.arg.tree, fcall.arg.root_category,
                                fcall.arg.skip_files)
       IN  /\ calls = <<>>
           /\ \A i \in 1..Len(fcall.out.hashed) :
                 \E j \in 1..Len(wanted) : wanted[j].path = fcall.out.hashed[i]
           /\ fcall.out.status \notin {"called", "scanning"}
              => IF fcall.arg.exists
                 THEN /\ fcall.out.status = "returned"
                      /\ fcall.out.files_data =
                            [j \in 1..Len(wanted) |->
                               ScanDescriptor(wanted[j], fcall.arg.root_category)]
                 ELSE /\ fcall.out.status = "FileNotFoundError"
                      /\ fcall.out.files_data = <<>>

(* C25: get_pages called with its defaults keeps querying with the cursor  *)
(* the store returned while the store reports has_more, stops when it does *)
(* not, and returns every page once, in order; with num_pages = n and      *)
(* retrieve_all false it returns the first min(n, total) pages.            *)
FirstPages(k) == [i \in 1..k |-> i]

ContentOps == {"destroy", "rename", "resource", "upload"}

EntryWrites == {"create_entry", "update_entry"}

Rank(call) ==
    IF call.op \in ContentOps THEN 1 ELSE IF call.op = "display" THEN 2 ELSE 3

C26_ItemAtATime ==
    \A j \in DOMAIN calls :
        /\ \A i \in 1..(j - 1) :
              /\ (calls[i].file # 0 /\ calls[i].file = calls[j].file) =>
                    /\ Rank(calls[i]) <= Rank(calls[j])
                    /\ Rank(calls[i]) < 3
                    /\ \A k \in i..j : calls[k].file = calls[j].file
              /\ calls[i].file = 0 => calls[j].file = 0
              /\ calls[i].op = "delete_entry" => calls[j].op \notin EntryWrites
        /\ calls[j].op \in EntryWrites =>
              \E i \in 1..(j - 1) :
                  /\ calls[i].file = calls[j].file
                  /\ calls[i].op \in {"rename", "upload"}

C26_Witness ==
    /\ pc = "done"
    /\ \E i, j, k \in DOMAIN calls :
          /\ i < j /\ j < k
          /\ calls[i].op \in EntryWrites
          /\ calls[j].op \in EntryWrites
          /\ calls[i].file # calls[j].file
          /\ calls[k].op = "delete_entry"

(* C27: a run in which the only failing remote calls are the destroy of    *)
(* the old asset of a content-changed file, a display-metadata update or   *)
(* the destroy of a deleted entry's asset is not abandoned: it reaches its *)
(* end with both loops run through, and the file of the failed call still  *)
(* got its upload and its entry write.                                     *)
BestEffortOps == {"destroy", "display"}

OnlyBestEffortFailed ==
    \A i \in DOMAIN calls : ~calls[i].ok => calls[i].op \in BestEffortOps

C27_BestEffortNeverBlocks ==
    OnlyBestEffortFailed =>
        /\ pc # "aborted"
        /\ pc = "done" =>
              /\ idx > Len(Scanned)
              /\ didx > Len(dels)
              /\ \A i \in DOMAIN calls :
                    (~calls[i].ok /\ calls[i].file # 0) =>
                        /\ \E j \in (i + 1)..Len(calls) :
                              /\ calls[j].file = calls[i].file
                              /\ calls[j].op \in EntryWrites
                              /\ calls[j].ok
                        /\ calls[i].op = "destroy" =>
                              /\ calls[i + 1].op = "upload"
                              /\ calls[i + 1].file = calls[i].file
                              /\ calls[i + 1].ok

C27_Witness ==
    /\ pc = "done"
    /\ \E i, j, k \in DOMAIN calls :
          /\ i < j /\ j < k
          /\ ~calls[i].ok
          /\ calls[i].op \in BestEffortOps
          /\ calls[i].file # 0
          /\ calls[j].file \notin {0, calls[i].file}
          /\ calls[j].op \in EntryWrites
          /\ calls[k].op = "delete_entry"

(* C28: every create_entry of a run comes after a successful upload_file   *)
(* of the same file in that run and carries the URL derived from that      *)
(* upload's secure_url, which is the URL of the entry right after its      *)
(* creation; after an upload_file that raised there is no create_entry for *)
(* the file.                                                               *)
LastCall == calls[Len(calls)]

CreatedEntry ==
    IF kind = "json" THEN Get(disk, LastCall.file) ELSE disk[Len(disk)]

C28_NoEntryWithoutUpload ==
    /\ \A j \in DOMAIN calls :
          calls[j].op = "create_entry" =>
              \E i \in 1..(j - 1) :
                  /\ calls[i].op = "upload"
                  /\ calls[i].file = calls[j].file
                  /\ calls[i].ok
                  /\ calls[j].arg = create_new_url(SecureUrl(calls[i].arg))
                  /\ \A k \in (i + 1)..(j - 1) : calls[k].op = "display"
    /\ \A i \in DOMAIN calls :
          (calls[i].op = "upload" /\ ~calls[i].ok) =>
              /\ \A j \in (i + 1)..Len(calls) :
                    ~(calls[j].op = "create_entry" /\ calls[j].file = calls[i].file)
              /\ ~\E j \in 1..Len(disk) :
                    /\ disk[j].hash = calls[i].file
                    /\ ~HasKey(base, calls[i].file)
    /\ (calls # <<>> /\ LastCall.op = "create_entry" /\ LastCall.ok) =>
          /\ CreatedEntry.hash = LastCall.file
          /\ CreatedEntry.image_url = LastCall.arg

C28_Witness ==
    /\ calls # <<>>
    /\ LastCall.op = "create_entry"
    /\ LastCall.ok
    /\ CreatedEntry.image_url = create_new_url(SecureUrl(calls[Len(calls) - 2].arg))
    /\ calls[Len(calls) - 2].op = "upload"
    /\ \E i \in DOMAIN calls : ~calls[i].ok

(* C29: under any sequence of create_entry, update_entry and delete_entry  *)
(* calls on a log whose keys each map to a record with that hash and id,   *)
(* every key still maps to a record with that hash and id, and after an    *)
(* update_entry that changed the hash the old hash is no key of the log.   *)
C29_LogKeyInvariant ==
    fcall.fn = "LocalJsonSyncBackend" =>
        /\ \A k \in DOMAIN fcall.out :
              /\ fcall.out[k].hash = k
              /\ fcall.out[k].id = k
        /\ (fcall.arg.op = "update_entry" /\ fcall.arg.old_hash # fcall.arg.new_hash) =>
              /\ fcall.arg.old_hash \notin DOMAIN fcall.out
              /\ fcall.arg.new_hash \in DOMAIN fcall.out

C29_Witness ==
    /\ fcall.fn = "LocalJsonSyncBackend"
    /\ fcall.n = 2
    /\ fcall.arg.op = "update_entry"
    /\ fcall.arg.old_hash # fcall.arg.new_hash
    /\ fcall.arg.new_hash \in DOMAIN fcall.out
    /\ Cardinality(DOMAIN fcall.out) = 2

(* C30: an entry that a run created or updated is not passed to            *)
(* delete_entry later in that run, and the deletion phase of the run does  *)
(* not destroy the asset the entry was written with.                       *)
C30_NothingWrittenIsDeleted ==
    \A i, j \in DOMAIN calls :
        (i < j /\ calls[i].op \in EntryWrites /\ calls[i].ok) =>
            /\ calls[j].op = "delete_entry" =>
                  calls[j].key \notin {calls[i].file, calls[i].key}
            /\ (calls[j].op = "destroy" /\ calls[j].file = 0) =>
                  calls[j].arg # _extract_public_id(calls[i].arg)

====
